---- MODULE Spec2Model ----
(***************************************************************************)
(* Pipeline bootstrapping engine of copilot-cli (`pipeline init`):         *)
(* initPipelineOpts.Ask and initPipelineOpts.Execute together with the     *)
(* collaborators they call (configuration store, environment selector,     *)
(* session provider, command runner, secret store, workspace writer,       *)
(* template parser, regional-resource getter).                             *)
(*                                                                         *)
(* The behaviour is taken from the gomock expectations of                  *)
(* internal/pkg/cli/pipeline_init_test.go: a mock without an expectation   *)
(* must not be called, a mock with an expectation must be called.          *)
(*                                                                         *)
(* Strings that the code takes apart (repository references) are           *)
(* sequences of fragments; strings that the code builds (error messages,   *)
(* the secret name) are sequences of fragments as well, so that a prefix   *)
(* or a wrapped cause can be read back from the result.                    *)
(***************************************************************************)
EXTENDS Integers, Sequences, FiniteSets, TLC

\* ------------------------------------------------------------------ bounds
\* Longest list of environment names given by flag or picked in the selector.
MaxEnvs == 2
\* Longest tail (fragments after "{owner}/") of a generated repository reference.
MaxTail == 3
\* Longest application name and longest repository name, in characters, that
\* a pipeline name is built from.
MaxAppLen == 92
MaxRepoLen == 92
\* Most lines in the output of "git remote -v".
MaxLines == 3
\* How often the remotes of one output are parsed.
MaxDiscoveries == 2

\* ------------------------------------------------------------------ helpers
Last(s) == s[Len(s)]

NoError == <<>>

\* fmt.Errorf("<prefix>: %w", cause): the cause is kept at the end.
Errorf(prefix, cause) == prefix \o <<": ">> \o cause

SomeError == <<"some error">>

\* ------------------------------------------------------------------ repository references
\* A repository reference is the sequence of its fragments, e.g.
\* "git@github.com:badgoose/goose.git" is
\* <<"git@", "github.com", ":", "badgoose", "/", "goose", ".git">>.
ghSSH == <<"git@", "github.com", ":", "badgoose", "/", "goose", ".git">>
ghHTTPS == <<"https://", "github.com", "/", "badGoose", "/", "chaOS">>
ghBad == <<"thisisnotevena", "github.com", "repository">>
ccHTTPS == <<"https://", "git-codecommit", ".", "us-west-2", ".amazonaws.com/v1/repos/", "goose">>
ccGRC == <<"codecommit", "::", "us-west-2", "://", "repo-man">>
ccBadRegion == <<"codecommit", "::", "us-mess-2", "://", "repo-man">>
ccBad == <<"git-codecommit", "us-west-2", "amazonaws.com">>
bbHTTPS == <<"https://", "huanjani", "@", "bitbucket.org", "/", "badgoose", "/", "goose", ".git">>
bbBad == <<"bitbucket.org">>
unsupportedURL == <<"https://", "gitlab.company.com", "/", "group", "/", "project", ".git">>

\* The references a run can be started with (--url).
References ==
    {ghSSH, ghHTTPS, ghBad, ccHTTPS, ccGRC, ccBadRegion, ccBad, bbHTTPS, bbBad, unsupportedURL}

\* Fragments that are a repository, owner or user name. A name can be a word
\* that is also the marker of a provider ("codecommit", "bitbucket.org").
NameTokens ==
    {"badgoose", "badGoose", "goose", "chaOS", "repo-man", "huanjani", "group", "project",
     "codecommit", "bitbucket.org"}

AWSRegions == {"us-west-2", "us-east-1"}

ghProviderName == "GitHub"
ccProviderName == "CodeCommit"
bbProviderName == "Bitbucket"

\* Host markers looked for with strings.Contains.
githubURL == {"github.com"}
ccIdentifier == {"codecommit", "git-codecommit"}
bbURL == {"bitbucket.org"}

HasMarker(ref, marker) == \E i \in 1..Len(ref) : ref[i] \in marker

\* A command that keeps a trailing ".git".
TrimGitSuffixNever(s) == s

\* strings.TrimSuffix(s, ".git"): one trailing ".git" is removed.
TrimGitSuffix(s) == IF Len(s) > 0 /\ Last(s) = ".git" THEN SubSeq(s, 1, Len(s) - 1) ELSE s

Details(kind, name, owner, region) ==
    [kind |-> kind, name |-> name, owner |-> owner, region |-> region, err |-> NoError]

Failure(msg) == [kind |-> "error", name |-> <<>>, owner |-> "", region |-> "", err |-> msg]

\* A grammar that takes whatever follows "{owner}/" as the name.
IsRepoNameAny(s) == TRUE

\* The last path segment as a repository name: the fragments of a name, one
\* at least, none of them a separator. A name is kept as the sequence of its
\* fragments: "grit.git" is <<"grit", ".git">>.
IsRepoName(s) == Len(s) > 0 /\ \A k \in 1..Len(s) : s[k] \in NameTokens \cup {".git"}

\* A message built from the reference without its ".git".
fmtErrUnsupportedTrimmed(ref) ==
    <<"repository ">> \o TrimGitSuffix(ref) \o <<" must be from a supported provider: GitHub, CodeCommit or Bitbucket">>

fmtErrUnsupported(ref) ==
    <<"repository ">> \o ref \o <<" must be from a supported provider: GitHub, CodeCommit or Bitbucket">>

fmtErrGitHub(ref) ==
    <<"unable to parse the GitHub repository owner and name from ">> \o ref
        \o <<": please pass the repository URL with the format --url https://github.com/{owner}/{repositoryName}">>

fmtErrCodeCommit(ref) == <<"unknown CodeCommit URL format: ">> \o ref

fmtErrRegion(ref) == <<"unable to parse the AWS region from ">> \o ref

fmtErrBitbucket(ref) == <<"unable to parse the Bitbucket repository name from ">> \o ref

\* ghRepoURL.parse: {host}{/ or :}{owner}/{name}[.git]
ghParse(ref) ==
    LET rest(i) == TrimGitSuffix(SubSeq(ref, i + 1, Len(ref)))
        ok(i) == /\ ref[i] \in githubURL
                 /\ Len(rest(i)) >= 4
                 /\ rest(i)[1] \in {"/", ":"}
                 /\ rest(i)[2] \in NameTokens
                 /\ rest(i)[3] = "/"
                 /\ IsRepoName(SubSeq(rest(i), 4, Len(rest(i))))
    IN IF \E i \in 1..Len(ref) : ok(i)
       THEN LET i == CHOOSE j \in 1..Len(ref) : ok(j)
            IN Details(ghProviderName, SubSeq(rest(i), 4, Len(rest(i))), rest(i)[2], "")
       ELSE Failure(fmtErrGitHub(ref))

\* A parse that takes any region segment for a region.
IsAWSRegionAny(r) == TRUE

\* The region segment has to be a region AWS has.
IsAWSRegion(r) == r \in AWSRegions

\* ccRepoURL.parse: git-codecommit.{region}.amazonaws.com/v1/repos/{name}
\* or codecommit::{region}://{name}; the region has to be an AWS region.
ccParse(ref) ==
    LET rest(i) == TrimGitSuffix(SubSeq(ref, i + 1, Len(ref)))
        ok(i) == /\ ref[i] \in ccIdentifier
                 /\ Len(rest(i)) >= 4
                 /\ \/ ref[i] = "git-codecommit" /\ rest(i)[1] = "."
                          /\ rest(i)[3] = ".amazonaws.com/v1/repos/"
                    \/ ref[i] = "codecommit" /\ rest(i)[1] = "::" /\ rest(i)[3] = "://"
                 /\ IsRepoName(SubSeq(rest(i), 4, Len(rest(i))))
    IN IF \E i \in 1..Len(ref) : ok(i)
       THEN LET i == CHOOSE j \in 1..Len(ref) : ok(j)
            IN IF IsAWSRegion(rest(i)[2])
               THEN Details(ccProviderName, SubSeq(rest(i), 4, Len(rest(i))), "", rest(i)[2])
               ELSE Failure(fmtErrRegion(ref))
       ELSE Failure(fmtErrCodeCommit(ref))

\* bbRepoURL.parse: bitbucket.org{/ or :}{owner}/{name}[.git]
bbParse(ref) ==
    LET rest(i) == TrimGitSuffix(SubSeq(ref, i + 1, Len(ref)))
        ok(i) == /\ ref[i] \in bbURL
                 /\ Len(rest(i)) >= 4
                 /\ rest(i)[1] \in {"/", ":"}
                 /\ rest(i)[2] \in NameTokens
                 /\ rest(i)[3] = "/"
                 /\ IsRepoName(SubSeq(rest(i), 4, Len(rest(i))))
    IN IF \E i \in 1..Len(ref) : ok(i)
       THEN LET i == CHOOSE j \in 1..Len(ref) : ok(j)
            IN Details(bbProviderName, SubSeq(rest(i), 4, Len(rest(i))), rest(i)[2], "")
       ELSE Failure(fmtErrBitbucket(ref))

\* A dispatch that looks for the CodeCommit marker first.
ClassifyCodeCommitFirst(ref) ==
    IF HasMarker(ref, ccIdentifier) THEN ccParse(ref)
    ELSE IF HasMarker(ref, githubURL) THEN ghParse(ref)
    ELSE IF HasMarker(ref, bbURL) THEN bbParse(ref)
    ELSE Failure(fmtErrUnsupported(ref))

\* A dispatch that goes on to the next provider when a parse fails, and
\* reports a reference no provider parses as unsupported.
ClassifyFallThrough(ref) ==
    IF ghParse(ref).err = NoError THEN ghParse(ref)
    ELSE IF ccParse(ref).err \in {NoError, fmtErrRegion(ref)} THEN ccParse(ref)
    ELSE IF bbParse(ref).err = NoError THEN bbParse(ref)
    ELSE Failure(fmtErrUnsupported(ref))

\* Provider dispatch: GitHub, then CodeCommit, then Bitbucket, by host marker;
\* the provider whose marker is found parses the reference.
Classify(ref) ==
    IF HasMarker(ref, githubURL) THEN ghParse(ref)
    ELSE IF HasMarker(ref, ccIdentifier) THEN ccParse(ref)
    ELSE IF HasMarker(ref, bbURL) THEN bbParse(ref)
    ELSE Failure(fmtErrUnsupported(ref))

\* validateURL of Ask: the reference passed by --url has to classify.
validateURL(ref) == Classify(ref).err

\* A command that does not compare the regions.
RegionMismatchNever(repoRegion, region) == FALSE

\* The CodeCommit repository has to be in the region of the default session.
RegionMismatch(repoRegion, region) == repoRegion # region

\* "repository %s is in %s, but app %s is in %s; they must be in the same region"
fmtErrRegionMismatch(repo, repoRegion, app, region) ==
    <<"repository ">> \o repo \o <<" is in ", repoRegion, ", but app ", app, " is in ", region,
                                  "; they must be in the same region">>

\* ------------------------------------------------------------------ inputs and collaborators
AppNames == {"badgoose"}
EnvNames == {"test", "prod"}
Tokens == {"", "hunter2"}
Branches == {"", "feature"}
defaultBranch == "main"

\* Lists of at most n environment names, duplicates allowed.
RECURSIVE EnvLists(_)
EnvLists(n) ==
    IF n = 0 THEN {<<>>}
    ELSE EnvLists(n - 1) \cup {Append(l, e) : l \in {m \in EnvLists(n - 1) : Len(m) = n - 1}, e \in EnvNames}

pipelineManifestFile == "pipeline.yml"
buildspecFile == "buildspec.yml"

\* A secret name with the repository before the application.
SecretNameRepoFirst(app, repo) == <<"github-token-">> \o repo \o <<"-", app>>

\* fmtSecretName: "github-token-%s-%s"
SecretName(app, repo) == <<"github-token-", app, "-">> \o repo

\* What the git command can leave in the buffer: nothing, the name of the
\* branch, or the name and the end of the line.
BranchOutputs == {<<>>, <<"devBranch">>, <<"devBranch", "\n">>}

IsSpace(fragment) == fragment \in {"\n", " "}

\* strings.TrimSpace: the white space at both ends is dropped.
RECURSIVE TrimSpace(_)
TrimSpace(s) ==
    IF s = <<>> THEN s
    ELSE IF IsSpace(Head(s)) THEN TrimSpace(Tail(s))
    ELSE IF IsSpace(Last(s)) THEN TrimSpace(SubSeq(s, 1, Len(s) - 1))
    ELSE s

\* A command that takes the end of what git wrote, whatever it is, for the
\* branch.
detectedBranchRaw(ans, out) == IF out = <<>> THEN "" ELSE Last(out)

\* The branch after the git command: what git wrote, trimmed; the default
\* branch if git failed or wrote nothing.
detectedBranch(ans, out) ==
    IF ans = "err" \/ TrimSpace(out) = <<>> THEN defaultBranch ELSE Head(TrimSpace(out))

\* The region of an environment of the configuration store.
EnvRegion(env) == IF env = "test" THEN "us-west-2" ELSE "us-east-1"

\* config.Environment, as far as the command reads it.
EnvConfig(env) == [Name |-> env, Region |-> EnvRegion(env)]

\* The environment configurations Execute is given when entered on its own:
\* config.Environment{Name: "test"}.
GivenEnvConfigs == {<<[Name |-> "test", Region |-> ""]>>}

\* A collaborator call as the mocks see it.
Call(op, arg, ans) == [op |-> op, arg |-> arg, ans |-> ans]

VARIABLES
    pc,                 \* the step of the command that runs next
    prevOK,             \* the run before this one returned no error
    flags,              \* the flags of the invocation, as given
    appName,            \* initPipelineVars.appName
    repoURL,            \* initPipelineVars.repoURL
    githubAccessToken,  \* initPipelineVars.githubAccessToken
    repoBranch,         \* initPipelineVars.repoBranch
    environments,       \* initPipelineVars.environments
    envSource,          \* "flag" (validateEnvs) or "select" (askEnvs)
    resolved,           \* the configurations collected by the running lookup loop
    envConfigs,         \* initPipelineOpts.envConfigs
    details,            \* provider, repoName, repoOwner / ccRegion
    err,                \* the error the command returned, NoError if none
    calls,              \* the collaborator calls of this run, in order
    secrets,            \* secret store: names of the secrets it holds
    files,              \* workspace: the pipeline files it holds
    store,              \* configuration store: applications and environments
    sessRegion,         \* region of the default session
    buffer,             \* initPipelineOpts.buffer: the output of "git remote -v", by line
    urls,               \* the repository URLs parseGitRemoteResult found in the buffer
    pipelineName,       \* the pipeline name pipelineName() built; PipelineDescriber.pipelineName
    showResources,      \* PipelineDescriber.showResources
    stack,              \* the stack of the pipeline, as the stack describer finds it
    description         \* what Describe returned

vars == <<pc, prevOK, flags, appName, repoURL, githubAccessToken, repoBranch, environments,
          envSource, resolved, envConfigs, details, err, calls, secrets, files, store,
          sessRegion, buffer, urls, pipelineName, showResources, stack, description>>

inputVars == <<flags, appName, repoURL, githubAccessToken>>
externalVars == <<secrets, files, store, sessRegion>>
helperVars == <<buffer, urls, pipelineName>>
describerVars == <<showResources, stack, description>>

\* No stack of the pipeline.
NoStack == [exists |-> FALSE, resources |-> {}]

\* Describe has not returned, or has returned nil.
Nil == [nil |-> TRUE]

\* No describer is at work in the runs of the command.
NoDescriber ==
    /\ showResources = FALSE
    /\ stack = NoStack
    /\ description = Nil

NoDetails == [kind |-> "", name |-> <<>>, owner |-> "", region |-> "", err |-> NoError]

Stores == {[apps |-> AppNames, envs |-> EnvNames], [apps |-> AppNames, envs |-> {"test"}]}

AllSecretNames == {SecretName(a, Classify(r).name) : a \in AppNames, r \in {x \in References : Classify(x).err = NoError}}

\* The command is entered at Ask; Execute is also entered on its own, with
\* the environment configurations given, as TestInitPipelineOpts_Execute does.
Entries == {"ask_url", "exec_parse"}

Init ==
    /\ pc \in Entries
    /\ prevOK = FALSE
    /\ appName \in AppNames
    /\ repoURL \in References
    /\ githubAccessToken \in Tokens
    /\ repoBranch \in Branches
    /\ environments \in IF pc = "ask_url" THEN EnvLists(MaxEnvs) ELSE {<<>>}
    /\ envConfigs \in IF pc = "ask_url" THEN {<<>>} ELSE GivenEnvConfigs
    /\ flags = [entry |-> pc, repoBranch |-> repoBranch, environments |-> environments,
                envConfigs |-> envConfigs]
    /\ envSource = ""
    /\ resolved = <<>>
    /\ details = NoDetails
    /\ err = NoError
    /\ calls = <<>>
    /\ secrets \in {{}, AllSecretNames}
    /\ files \in SUBSET {pipelineManifestFile, buildspecFile}
    /\ store \in Stores
    /\ sessRegion \in AWSRegions
    /\ buffer = <<>>
    /\ urls = <<>>
    /\ pipelineName = <<>>
    /\ NoDescriber

\* The command returns e.
Return(e) ==
    /\ pc' = "done"
    /\ err' = e

\* ------------------------------------------------------------------ order of the steps
\* Ask: the repository URL first, then the environments.
askSteps == <<"ask_url", "ask_envs", "env_lookup">>

\* Execute, first part: repository details (with the CodeCommit region
\* check), then the branch.
executePrelude == <<"exec_parse", "exec_branch">>

\* A provisioning that writes the manifest after the application, the
\* regional resources and the template.
provisionStepsManifestAfterRender ==
    <<"exec_secret", "exec_app", "exec_resources", "exec_render", "exec_manifest",
      "exec_buildspec">>

\* Execute, second part: secret, pipeline manifest (createPipelineManifest),
\* then the buildspec (createBuildspec: application, regional resources,
\* template, file).
provisionSteps ==
    <<"exec_secret", "exec_manifest", "exec_app", "exec_resources", "exec_render",
      "exec_buildspec">>

executeSteps == executePrelude \o provisionSteps

\* A command that reads the URL and checks the region before it looks the
\* environments up.
StepsRegionCheckFirst ==
    <<"ask_url", "exec_parse", "ask_envs", "env_lookup", "exec_branch">> \o provisionSteps

\* The command: Ask, then Execute.
Steps == askSteps \o executeSteps

StepAfter(step) ==
    LET i == CHOOSE j \in 1..Len(Steps) : Steps[j] = step
    IN IF i = Len(Steps) THEN "done" ELSE Steps[i + 1]

\* ------------------------------------------------------------------ collaborator contracts
\* store.GetEnvironment(app, env)
GetEnvironmentAnswers(app, env) ==
    IF app \in store.apps /\ env \in store.envs THEN {"ok", "err"} ELSE {"err"}

\* store.GetApplication(app)
GetApplicationAnswers(app) == IF app \in store.apps THEN {"ok", "err"} ELSE {"err"}

\* secretsmanager.CreateSecret(name, value): ErrSecretAlreadyExists for a held name
CreateSecretAnswers(name) == IF name \in secrets THEN {"exists", "err"} ELSE {"ok", "err"}

\* A workspace that writes over a file it holds.
WriteAnswersOverwrite(file) == {"ok", "err"}

\* workspace.WritePipelineManifest / WritePipelineBuildspec: ErrFileExists for a held file
WriteAnswers(file) == IF file \in files THEN {"exists", "err"} ELSE {"ok", "err"}

\* ------------------------------------------------------------------ error handling of the command
\* A command that takes every error of CreateSecret as fatal.
IsSecretExistsErrNever(ans) == FALSE

\* errors.As(err, &secretsmanager.ErrSecretAlreadyExists{})
IsSecretExistsErr(ans) == ans = "exists"

\* A command that takes every error of WritePipelineManifest as fatal.
IsManifestExistsErrNever(ans) == FALSE

\* errors.As(err, &workspace.ErrFileExists{}) after WritePipelineManifest
IsManifestExistsErr(ans) == ans = "exists"

\* A command that takes every error of WritePipelineBuildspec as fatal.
IsBuildspecExistsErrNever(ans) == FALSE

\* errors.As(err, &workspace.ErrFileExists{}) after WritePipelineBuildspec
IsBuildspecExistsErr(ans) == ans = "exists"

\* A command that wraps a failed lookup the same way in validateEnvs and in
\* askEnvs.
fmtErrEnvGetConfig(source, env, cause) == Errorf(<<"get config of environment ", env>>, cause)

\* validateEnvs wraps with "validate environment %s", askEnvs with
\* "get config of environment %s".
fmtErrEnv(source, env, cause) ==
    IF source = "flag"
    THEN Errorf(<<"validate environment ", env>>, cause)
    ELSE Errorf(<<"get config of environment ", env>>, cause)

fmtErrSelectEnvs(cause) == Errorf(<<"select environments">>, cause)
fmtErrSecret(cause) == Errorf(<<"create pipeline secret">>, cause)
fmtErrManifest(cause) == Errorf(<<"write pipeline manifest to workspace">>, cause)
fmtErrApp(app, cause) == Errorf(<<"get application ", app>>, cause)
fmtErrResources(cause) == Errorf(<<"get regional application resources">>, cause)
\* A command that wraps the error of the template parser.
fmtErrRenderWrapped(cause) == Errorf(<<"parse buildspec template">>, cause)
fmtErrRender(cause) == cause
\* A command that returns the error of WritePipelineBuildspec as it is.
fmtErrBuildspecUnwrapped(cause) == cause
fmtErrBuildspec(cause) == Errorf(<<"write buildspec to workspace">>, cause)

\* A command that checks the region for every provider.
ChecksRegionAlways(kind) == TRUE

\* Only a CodeCommit repository has a region to check.
ChecksRegion(kind) == kind = ccProviderName

\* A command that takes the region of the first environment, when it has
\* one, for the region of the pipeline.
effectiveRegionOfFirstEnv ==
    IF envConfigs # <<>> /\ envConfigs[1].Region # "" THEN envConfigs[1].Region ELSE sessRegion

\* The region of the pipeline: the region of sessProvider.Default().
effectiveRegion == sessRegion

\* ------------------------------------------------------------------ Ask
\* Ask, first part: the URL given by --url is validated.
AskURL ==
    /\ pc = "ask_url"
    /\ IF validateURL(repoURL) # NoError
       THEN Return(validateURL(repoURL))
       ELSE pc' = StepAfter("ask_url") /\ err' = err
    /\ UNCHANGED <<prevOK, inputVars, repoBranch, environments, envSource, resolved,
                   envConfigs, details, calls, externalVars, helperVars,
                   describerVars>>

\* The lookup loop of validateEnvs / askEnvs is over: the result is stored
\* and Ask returns nil.
EnvsResolved(configs) ==
    /\ envConfigs' = configs
    /\ pc' = StepAfter("env_lookup")
    /\ err' = err

\* Ask, second part: environments given by --environments are validated one
\* by one, otherwise the selector is asked for them.
AskEnvs ==
    /\ pc = "ask_envs"
    /\ resolved' = <<>>
    /\ IF Len(environments) > 0
       THEN /\ envSource' = "flag"
            /\ pc' = StepAfter("ask_envs")
            /\ UNCHANGED <<environments, envConfigs, err, calls>>
       ELSE /\ envSource' = "select"
            /\ \/ \E picked \in EnvLists(MaxEnvs) :
                    /\ calls' = Append(calls, Call("sel.Environments", <<appName>>, "ok"))
                    /\ environments' = picked
                    /\ IF Len(picked) = 0
                       THEN EnvsResolved(<<>>)
                       ELSE pc' = StepAfter("ask_envs") /\ UNCHANGED <<envConfigs, err>>
               \/ /\ calls' = Append(calls, Call("sel.Environments", <<appName>>, "err"))
                  /\ Return(fmtErrSelectEnvs(SomeError))
                  /\ UNCHANGED <<environments, envConfigs>>
    /\ UNCHANGED <<prevOK, inputVars, repoBranch, details, externalVars, helperVars,
                   describerVars>>

\* A lookup loop that goes on after a failed lookup and reports the failure
\* once all names were looked up.
EnvLookupBestEffort ==
    /\ pc = "env_lookup"
    /\ LET env == environments[Len(resolved) + 1]
       IN \E ans \in GetEnvironmentAnswers(appName, env) :
            /\ calls' = Append(calls, Call("GetEnvironment", <<appName, env>>, ans))
            /\ resolved' = Append(resolved, EnvConfig(env))
            /\ LET e == IF ans = "ok" THEN err ELSE fmtErrEnv(envSource, env, SomeError)
               IN IF Len(resolved') < Len(environments)
                  THEN err' = e /\ UNCHANGED <<pc, envConfigs>>
                  ELSE IF e = NoError
                       THEN EnvsResolved(resolved')
                       ELSE Return(e) /\ UNCHANGED envConfigs
    /\ UNCHANGED <<prevOK, inputVars, repoBranch, environments, envSource, details,
                   externalVars, helperVars,
                   describerVars>>

\* A lookup loop that puts each configuration in front of the ones it has.
EnvLookupPrepend ==
    /\ pc = "env_lookup"
    /\ LET env == environments[Len(resolved) + 1]
       IN \E ans \in GetEnvironmentAnswers(appName, env) :
            /\ calls' = Append(calls, Call("GetEnvironment", <<appName, env>>, ans))
            /\ IF ans = "ok"
               THEN /\ resolved' = <<EnvConfig(env)>> \o resolved
                    /\ IF Len(resolved') = Len(environments)
                       THEN EnvsResolved(resolved')
                       ELSE UNCHANGED <<pc, err, envConfigs>>
               ELSE /\ Return(fmtErrEnv(envSource, env, SomeError))
                    /\ UNCHANGED <<resolved, envConfigs>>
    /\ UNCHANGED <<prevOK, inputVars, repoBranch, environments, envSource, details,
                   externalVars, helperVars,
                   describerVars>>

\* A lookup loop that asks the store once more for a name whose lookup
\* failed, and gives up when that fails too.
EnvLookupRetryOnce ==
    /\ pc = "env_lookup"
    /\ LET env == environments[Len(resolved) + 1]
           again == Len(calls) > 0 /\ calls[Len(calls)].op = "GetEnvironment"
                        /\ calls[Len(calls)].ans = "err"
       IN \E ans \in GetEnvironmentAnswers(appName, env) :
            /\ calls' = Append(calls, Call("GetEnvironment", <<appName, env>>, ans))
            /\ IF ans = "ok"
               THEN /\ resolved' = Append(resolved, EnvConfig(env))
                    /\ IF Len(resolved') = Len(environments)
                       THEN EnvsResolved(resolved')
                       ELSE UNCHANGED <<pc, err, envConfigs>>
               ELSE IF again
                    THEN /\ Return(fmtErrEnv(envSource, env, SomeError))
                         /\ UNCHANGED <<resolved, envConfigs>>
                    ELSE UNCHANGED <<pc, err, resolved, envConfigs>>
    /\ UNCHANGED <<prevOK, inputVars, repoBranch, environments, envSource, details,
                   externalVars, helperVars,
                   describerVars>>

\* One iteration of the lookup loop: store.GetEnvironment for the next name.
EnvLookup ==
    /\ pc = "env_lookup"
    /\ LET env == environments[Len(resolved) + 1]
       IN \E ans \in GetEnvironmentAnswers(appName, env) :
            /\ calls' = Append(calls, Call("GetEnvironment", <<appName, env>>, ans))
            /\ IF ans = "ok"
               THEN /\ resolved' = Append(resolved, EnvConfig(env))
                    /\ IF Len(resolved') = Len(environments)
                       THEN EnvsResolved(resolved')
                       ELSE UNCHANGED <<pc, err, envConfigs>>
               ELSE /\ Return(fmtErrEnv(envSource, env, SomeError))
                    /\ UNCHANGED <<resolved, envConfigs>>
    /\ UNCHANGED <<prevOK, inputVars, repoBranch, environments, envSource, details,
                   externalVars, helperVars,
                   describerVars>>

\* ------------------------------------------------------------------ Execute
\* Execute, repository details: the URL is classified and parsed; for a
\* CodeCommit repository the region of the default session has to be the
\* region of the repository.
ExecParse ==
    /\ pc = "exec_parse"
    /\ LET d == Classify(repoURL)
       IN IF d.err # NoError
          THEN /\ Return(d.err)
               /\ UNCHANGED <<details, calls>>
          ELSE /\ details' = d
               /\ IF ChecksRegion(d.kind)
                  THEN /\ calls' = Append(calls, Call("sessProvider.Default", <<>>, "ok"))
                       /\ IF RegionMismatch(d.region, effectiveRegion)
                          THEN Return(fmtErrRegionMismatch(d.name, d.region, appName,
                                                           effectiveRegion))
                          ELSE pc' = StepAfter("exec_parse") /\ err' = err
                  ELSE /\ calls' = calls
                       /\ pc' = StepAfter("exec_parse")
                       /\ err' = err
    /\ UNCHANGED <<prevOK, inputVars, repoBranch, environments, envSource, resolved,
                   envConfigs, externalVars, helperVars,
                   describerVars>>

\* A command that asks git for the branch even when a branch was given.
DetectsBranchAlways(branch) == TRUE

\* Git is asked for the branch only when none was given.
DetectsBranch(branch) == branch = ""

\* Execute, branch: without --git-branch the local branch is asked from git;
\* a failing command or an empty answer gives the default branch.
ExecBranch ==
    /\ pc = "exec_branch"
    /\ IF DetectsBranch(repoBranch)
       THEN \/ \E out \in BranchOutputs :
                 /\ calls' = Append(calls, Call("runner.Run", <<"git">>, "ok"))
                 /\ buffer' = out
                 /\ repoBranch' = detectedBranch("ok", out)
            \/ /\ calls' = Append(calls, Call("runner.Run", <<"git">>, "err"))
               /\ buffer' = buffer
               /\ repoBranch' = detectedBranch("err", buffer)
       ELSE UNCHANGED <<calls, repoBranch, buffer>>
    /\ pc' = StepAfter("exec_branch")
    /\ UNCHANGED <<prevOK, inputVars, environments, envSource, resolved, envConfigs,
                   details, err, externalVars, urls, pipelineName,
                   describerVars>>

\* Execute, secret: with a GitHub access token the token is stored under
\* the secret name; a secret that exists already is fine.
ExecSecret ==
    /\ pc = "exec_secret"
    /\ IF githubAccessToken # ""
       THEN LET name == SecretName(appName, details.name)
            IN \E ans \in CreateSecretAnswers(name) :
                 /\ calls' = Append(calls, Call("CreateSecret", <<name, githubAccessToken>>, ans))
                 /\ secrets' = IF ans = "ok" THEN secrets \cup {name} ELSE secrets
                 /\ IF ans = "ok" \/ IsSecretExistsErr(ans)
                    THEN pc' = StepAfter("exec_secret") /\ err' = err
                    ELSE Return(fmtErrSecret(SomeError))
       ELSE /\ pc' = StepAfter("exec_secret")
            /\ UNCHANGED <<calls, secrets, err>>
    /\ UNCHANGED <<prevOK, inputVars, repoBranch, environments, envSource, resolved,
                   envConfigs, details, files, store, sessRegion, helperVars,
                   describerVars>>

\* Execute, createPipelineManifest: the manifest is written to the
\* workspace; a manifest that exists already is kept.
ExecManifest ==
    /\ pc = "exec_manifest"
    /\ \E ans \in WriteAnswers(pipelineManifestFile) :
         /\ calls' = Append(calls, Call("WritePipelineManifest", <<>>, ans))
         /\ files' = IF ans = "ok" THEN files \cup {pipelineManifestFile} ELSE files
         /\ IF ans = "ok" \/ IsManifestExistsErr(ans)
            THEN pc' = StepAfter("exec_manifest") /\ err' = err
            ELSE Return(fmtErrManifest(SomeError))
    /\ UNCHANGED <<prevOK, inputVars, repoBranch, environments, envSource, resolved,
                   envConfigs, details, secrets, store, sessRegion, helperVars,
                   describerVars>>

\* Execute, createBuildspec: the application is read from the store.
ExecApp ==
    /\ pc = "exec_app"
    /\ \E ans \in GetApplicationAnswers(appName) :
         /\ calls' = Append(calls, Call("GetApplication", <<appName>>, ans))
         /\ IF ans = "ok"
            THEN pc' = StepAfter("exec_app") /\ err' = err
            ELSE Return(fmtErrApp(appName, SomeError))
    /\ UNCHANGED <<prevOK, inputVars, repoBranch, environments, envSource, resolved,
                   envConfigs, details, externalVars, helperVars,
                   describerVars>>

\* Execute, createBuildspec: the regional resources of the application.
ExecResources ==
    /\ pc = "exec_resources"
    /\ \E ans \in {"ok", "err"} :
         /\ calls' = Append(calls, Call("GetRegionalAppResources", <<appName>>, ans))
         /\ IF ans = "ok"
            THEN pc' = StepAfter("exec_resources") /\ err' = err
            ELSE Return(fmtErrResources(SomeError))
    /\ UNCHANGED <<prevOK, inputVars, repoBranch, environments, envSource, resolved,
                   envConfigs, details, externalVars, helperVars,
                   describerVars>>

\* Execute, createBuildspec: the buildspec template is rendered.
ExecRender ==
    /\ pc = "exec_render"
    /\ \E ans \in {"ok", "err"} :
         /\ calls' = Append(calls, Call("Parse", <<"buildspec">>, ans))
         /\ IF ans = "ok"
            THEN pc' = StepAfter("exec_render") /\ err' = err
            ELSE Return(fmtErrRender(SomeError))
    /\ UNCHANGED <<prevOK, inputVars, repoBranch, environments, envSource, resolved,
                   envConfigs, details, externalVars, helperVars,
                   describerVars>>

\* Execute, createBuildspec: the buildspec is written to the workspace; a
\* buildspec that exists already is kept.
ExecBuildspec ==
    /\ pc = "exec_buildspec"
    /\ \E ans \in WriteAnswers(buildspecFile) :
         /\ calls' = Append(calls, Call("WritePipelineBuildspec", <<>>, ans))
         /\ files' = IF ans = "ok" THEN files \cup {buildspecFile} ELSE files
         /\ IF ans = "ok" \/ IsBuildspecExistsErr(ans)
            THEN pc' = StepAfter("exec_buildspec") /\ err' = err
            ELSE Return(fmtErrBuildspec(SomeError))
    /\ UNCHANGED <<prevOK, inputVars, repoBranch, environments, envSource, resolved,
                   envConfigs, details, secrets, store, sessRegion, helperVars,
                   describerVars>>

\* The command is run again with the same flags against the same workspace,
\* secret store and configuration store.
Rerun ==
    /\ pc = "done"
    /\ prevOK' = (err = NoError)
    /\ pc' = flags.entry
    /\ repoBranch' = flags.repoBranch
    /\ environments' = flags.environments
    /\ envSource' = ""
    /\ resolved' = <<>>
    /\ envConfigs' = flags.envConfigs
    /\ details' = NoDetails
    /\ err' = NoError
    /\ calls' = <<>>
    /\ buffer' = <<>>
    /\ UNCHANGED <<inputVars, externalVars, urls, pipelineName,
                   describerVars>>

Next ==
    \/ AskURL
    \/ AskEnvs
    \/ EnvLookup
    \/ ExecParse
    \/ ExecBranch
    \/ ExecSecret
    \/ ExecManifest
    \/ ExecApp
    \/ ExecResources
    \/ ExecRender
    \/ ExecBuildspec
    \/ Rerun

Spec == Init /\ [][Next]_vars

\* ------------------------------------------------------------------ repository details on their own
\* References built from the dialects of the providers: a head up to
\* "{owner}/" (CodeCommit: up to the place of the name) and a tail.
TailAlphabet == {"goose", "bitbucket.org", "/", ".git"}

RECURSIVE Tails(_)
Tails(n) ==
    IF n = 0 THEN {<<>>}
    ELSE Tails(n - 1) \cup {Append(t, f) : t \in {u \in Tails(n - 1) : Len(u) = n - 1}, f \in TailAlphabet}

\* "{name}" and "{name}.git"
GoodTails == {<<"goose">>, <<"bitbucket.org">>, <<"goose", ".git">>, <<"bitbucket.org", ".git">>}

Owners == {"badgoose", "codecommit"}

ghHeads ==
    {sch \o <<"github.com", sep, o, "/">> :
        sch \in {<<"https://">>, <<"git@">>, <<"git://">>}, sep \in {"/", ":"}, o \in Owners}

ccHeads ==
    {<<"codecommit", "::", r, "://">> : r \in AWSRegions \cup {"us-mess-2"}}
        \cup {<<sch, "git-codecommit", ".", r, ".amazonaws.com/v1/repos/">> :
                 sch \in {"https://", "ssh://"}, r \in AWSRegions \cup {"us-mess-2"}}

bbHeads ==
    {sch \o <<"bitbucket.org", sep, o, "/">> :
        sch \in {<<"https://", "huanjani", "@">>, <<"ssh://", "git@">>, <<"https://">>},
        sep \in {"/", ":"}, o \in Owners}

otherHeads == {<<"https://", "gitlab.company.com", "/", "group", "/">>, <<"unsupported.org", "/">>}

RefsOf(heads, tails) == {h \o t : h \in heads, t \in tails}

\* The references Execute is given on its own.
ParseInputs ==
    References \cup RefsOf(ghHeads \cup ccHeads \cup bbHeads \cup otherHeads, Tails(MaxTail))

\* Execute is entered with a reference and nothing else: no token, no
\* branch, no environments.
InitParse ==
    /\ pc = "exec_parse"
    /\ prevOK = FALSE
    /\ appName \in AppNames
    /\ repoURL \in ParseInputs
    /\ githubAccessToken = ""
    /\ repoBranch = ""
    /\ environments = <<>>
    /\ envConfigs = <<>>
    /\ flags = [entry |-> pc, repoBranch |-> repoBranch, environments |-> environments,
                envConfigs |-> envConfigs]
    /\ envSource = ""
    /\ resolved = <<>>
    /\ details = NoDetails
    /\ err = NoError
    /\ calls = <<>>
    /\ secrets = {}
    /\ files = {}
    /\ store \in Stores
    /\ sessRegion \in AWSRegions
    /\ buffer = <<>>
    /\ urls = <<>>
    /\ pipelineName = <<>>
    /\ NoDescriber

\* The first step of Execute, for every reference of ParseInputs.
SpecParse == InitParse /\ [][ExecParse]_vars

\* ------------------------------------------------------------------ pipeline name
\* Here a string is the sequence of its characters, and a character is
\* written <<s, i>>: the i-th character of s.
Chars(str, n) == [i \in 1..n |-> <<str, i>>]

\* "pipeline-%s-%s"
fmtPipelineName(app, repo) == Chars("pipeline-", 9) \o app \o Chars("-", 1) \o repo

\* The longest pipeline name.
maxPipelineNameLen == 100

\* A cut that is taken one character too early.
buildNameOffByOne(app, repo) ==
    LET full == fmtPipelineName(app, repo)
    IN IF Len(full) < maxPipelineNameLen THEN full ELSE SubSeq(full, 1, maxPipelineNameLen - 1)

\* A cut that keeps the end of the repository name, not its start.
buildNameKeepTail(app, repo) ==
    LET full == fmtPipelineName(app, repo)
        over == Len(full) - maxPipelineNameLen
    IN IF over <= 0 THEN full
       ELSE IF over >= Len(repo) THEN SubSeq(full, 1, maxPipelineNameLen)
       ELSE fmtPipelineName(app, SubSeq(repo, over + 1, Len(repo)))

\* pipelineName(): "pipeline-" + appName + "-" + repoName, cut after 100
\* characters.
buildName(app, repo) ==
    LET full == fmtPipelineName(app, repo)
    IN IF Len(full) <= maxPipelineNameLen THEN full ELSE SubSeq(full, 1, maxPipelineNameLen)

\* initPipelineOpts with an application name and a repository name, as
\* pipelineName() needs them.
InitName ==
    /\ pc = "pipeline_name"
    /\ prevOK = FALSE
    /\ appName \in {Chars("appName", n) : n \in 1..MaxAppLen}
    /\ details \in {[NoDetails EXCEPT !.kind = ghProviderName, !.name = Chars("repoName", m)] :
                       m \in 1..MaxRepoLen}
    /\ repoURL = <<>>
    /\ githubAccessToken = ""
    /\ repoBranch = ""
    /\ environments = <<>>
    /\ envConfigs = <<>>
    /\ flags = [entry |-> pc, repoBranch |-> repoBranch, environments |-> environments,
                envConfigs |-> envConfigs]
    /\ envSource = ""
    /\ resolved = <<>>
    /\ err = NoError
    /\ calls = <<>>
    /\ secrets = {}
    /\ files = {}
    /\ store = [apps |-> {appName}, envs |-> {}]
    /\ sessRegion \in AWSRegions
    /\ buffer = <<>>
    /\ urls = <<>>
    /\ pipelineName = <<>>
    /\ NoDescriber

\* opts.pipelineName()
PipelineName ==
    /\ pc = "pipeline_name"
    /\ pipelineName' = buildName(appName, details.name)
    /\ pc' = "done"
    /\ UNCHANGED <<prevOK, inputVars, repoBranch, environments, envSource, resolved,
                   envConfigs, details, err, calls, externalVars, buffer, urls,
                   describerVars>>

SpecName == InitName /\ [][PipelineName]_vars

\* ------------------------------------------------------------------ remote discovery
\* The URLs "git remote -v" can list: URLs of the three providers, with and
\* without ".git", and a URL of another host.
ghSSHNoSuffix == <<"git@", "github.com", ":", "badgoose", "/", "goose">>
SupportedRemotes == {ghSSH, ghSSHNoSuffix, ccGRC, bbHTTPS}
UnsupportedRemotes == {<<"verybad@", "gitlab.com", "/", "whatever">>}

\* A line of the output: "{alias}\t{url} ({direction})".
RemoteLines ==
    {[alias |-> "origin", url |-> u, direction |-> d] :
        u \in SupportedRemotes \cup UnsupportedRemotes, d \in {"(fetch)", "(push)"}}

RECURSIVE Listings(_)
Listings(n) ==
    IF n = 0 THEN {<<>>}
    ELSE Listings(n - 1) \cup {Append(l, x) : l \in {m \in Listings(n - 1) : Len(m) = n - 1}, x \in RemoteLines}

\* A discovery that keeps the ".git" of the URLs.
parseGitRemoteResultKeepSuffix(s) ==
    {s[k].url : k \in {j \in 1..Len(s) : Classify(s[j].url).err = NoError}}

\* A discovery that stops at the first line of a supported provider.
parseGitRemoteResultFirstOnly(s) ==
    LET ok == {j \in 1..Len(s) : Classify(s[j].url).err = NoError}
    IN IF ok = {} THEN {}
       ELSE {TrimGitSuffix(s[CHOOSE j \in ok : \A i \in ok : j <= i].url)}

\* parseGitRemoteResult, first part: the URL of every line of a supported
\* provider, without a trailing ".git", is put in the set of URLs; the
\* other lines are skipped.
parseGitRemoteResult(s) ==
    {TrimGitSuffix(s[k].url) : k \in {j \in 1..Len(s) : Classify(s[j].url).err = NoError}}

\* The elements of a list.
SetOfURLs(list) == {list[i] : i \in 1..Len(list)}

\* Lists as long as the set in which an element can come twice.
OrderingsWithRepeats(S) == [1..Cardinality(S) -> S]

\* The sequences that hold every element of the set once.
Orderings(S) ==
    {o \in [1..Cardinality(S) -> S] : \A i, j \in 1..Cardinality(S) : o[i] = o[j] => i = j}

\* initPipelineOpts with the output of "git remote -v" in its buffer.
InitDiscover ==
    /\ pc = "git_remote"
    /\ prevOK = FALSE
    /\ appName \in AppNames
    /\ repoURL = <<>>
    /\ githubAccessToken = ""
    /\ repoBranch = ""
    /\ environments = <<>>
    /\ envConfigs = <<>>
    /\ flags = [entry |-> pc, repoBranch |-> repoBranch, environments |-> environments,
                envConfigs |-> envConfigs]
    /\ envSource = ""
    /\ resolved = <<>>
    /\ details = NoDetails
    /\ err = NoError
    /\ calls = <<>>
    /\ secrets = {}
    /\ files = {}
    /\ store = [apps |-> AppNames, envs |-> EnvNames]
    /\ sessRegion = "us-west-2"
    /\ buffer \in Listings(MaxLines)
    /\ urls = <<>>
    /\ pipelineName = <<>>
    /\ NoDescriber

\* opts.parseGitRemoteResult(buffer): the URLs of the set are returned as a
\* list, in an order the listing does not fix (the result is compared as a
\* collection of elements, not as a sequence); no error is returned.
ParseGitRemoteResult ==
    /\ pc = "git_remote"
    /\ \E order \in Orderings(parseGitRemoteResult(buffer)) :
         /\ urls' = order
         /\ calls' = Append(calls, Call("parseGitRemoteResult", buffer, order))
    /\ pc' = "done"
    /\ err' = NoError
    /\ UNCHANGED <<prevOK, inputVars, repoBranch, environments, envSource, resolved,
                   envConfigs, details, externalVars, buffer, pipelineName,
                   describerVars>>

\* The same output is parsed once more.
DiscoverAgain ==
    /\ pc = "done"
    /\ Len(calls) < MaxDiscoveries
    /\ pc' = "git_remote"
    /\ urls' = <<>>
    /\ UNCHANGED <<prevOK, inputVars, repoBranch, environments, envSource, resolved,
                   envConfigs, details, err, calls, externalVars, buffer, pipelineName,
                   describerVars>>

NextDiscover ==
    \/ ParseGitRemoteResult
    \/ DiscoverAgain

SpecDiscover == InitDiscover /\ [][NextDiscover]_vars

\* ------------------------------------------------------------------ Ask without --url
\* "select URL: %w"
fmtErrSelectURL(cause) == Errorf(<<"select URL">>, cause)

\* The failure of a run that finds no repository to build the pipeline from.
errNoRepositoryFound == <<"NoRepositoryFoundError">>

\* A selection that puts even a single URL to the user.
PromptsForURLAlways(n) == n >= 1

\* A single URL is taken as it is; several URLs are put to the user.
PromptsForURL(n) == n > 1

\* What prompt.SelectOne returns with an error: no URL.
NoURL == <<>>

\* prompt.SelectOne(pipelineSelectURLPrompt, ..., options): one of the
\* options, or no URL and an error.
SelectOneAnswers(options) == SetOfURLs(options) \cup {NoURL}

\* The references a user can type when asked for the URL directly.
TypedURLs == {ghHTTPS, bbHTTPS}

\* Ask, first part, without --url: "git remote -v" is run into the buffer,
\* the buffer is parsed, and the repository URL is the only URL found, or
\* the URL the user selects among the ones found.  With no URL found the
\* user is asked for the URL in another way, or the command fails.
SelectURL ==
    /\ pc = "git_remote"
    /\ repoURL = <<>>
    /\ \E order \in Orderings(parseGitRemoteResult(buffer)) :
         LET ran == Append(calls, Call("runner.Run", <<"git", "remote", "-v">>, "ok"))
         IN /\ urls' = order
            /\ IF PromptsForURL(Len(order))
               THEN \E ans \in SelectOneAnswers(order) :
                      /\ calls' = Append(ran, Call("prompt.SelectOne", order, ans))
                      /\ IF ans = NoURL
                         THEN repoURL' = repoURL /\ Return(fmtErrSelectURL(SomeError))
                         ELSE repoURL' = ans /\ Return(NoError)
               ELSE IF Len(order) = 1
                    THEN /\ calls' = ran
                         /\ repoURL' = order[1]
                         /\ Return(NoError)
                    ELSE \/ /\ calls' = ran
                            /\ repoURL' = repoURL
                            /\ Return(errNoRepositoryFound)
                         \/ \E typed \in TypedURLs :
                              /\ calls' = Append(ran, Call("prompt.Get", <<>>, typed))
                              /\ repoURL' = typed
                              /\ Return(NoError)
    /\ UNCHANGED <<prevOK, flags, appName, githubAccessToken, repoBranch, environments,
                   envSource, resolved, envConfigs, details, externalVars, buffer,
                   pipelineName,
                   describerVars>>

\* Ask up to the repository URL, for every listing "git remote -v" can give.
SpecSelect == InitDiscover /\ [][SelectURL]_vars

\* ------------------------------------------------------------------ PipelineDescriber
\* The most resources the stack of a pipeline has.
MaxResources == 3

\* The pipelines a describer is made for.
PipelineNames == {"pipeline-badgoose-goose", "pipeline-badgoose-repo-man", "pipeline-demo-chaOS"}

\* stack.Resource, by its number in the stack.
StackResources == 1..MaxResources

\* The stack of a pipeline: none, or a stack with some resources.
Stacks == {NoStack} \cup {[exists |-> TRUE, resources |-> r] : r \in SUBSET StackResources}

\* The resources of a set as a list, in the order of the stack.
RECURSIVE ListOf(_)
ListOf(S) ==
    IF S = {} THEN <<>>
    ELSE LET least == CHOOSE x \in S : \A y \in S : x <= y
         IN <<least>> \o ListOf(S \ {least})

\* pipelineGetter.GetPipeline(pipelineName)
GetPipelineAnswers(name) == {"ok", "err"}

\* codepipeline.Pipeline, as far as Describe reads it.
CodePipeline(name) == [Name |-> name]

\* stackDescriber.Resources(): the resources of the stack, an error that
\* says there is no stack, or another error.
ResourcesAnswers == IF stack.exists THEN {"ok", "err"} ELSE {"notexists", "err"}

\* What Resources() returns beside its error: the resources of the stack,
\* none with an error.
ResourcesOf(ans) == IF ans = "ok" THEN ListOf(stack.resources) ELSE <<>>

\* A describer for which no error says that the stack does not exist.
IsStackNotExistsErrNever(ans) == FALSE

\* IsStackNotExistsErr(err)
IsStackNotExistsErr(ans) == ans = "notexists"

\* "get pipeline: %w"
fmtErrGetPipeline(cause) == Errorf(<<"get pipeline">>, cause)

\* "retrieve pipeline resources: %w"
fmtErrRetrieveResources(cause) == Errorf(<<"retrieve pipeline resources">>, cause)

\* &Pipeline{*cp, resources}
Pipeline(cp, resources) == [nil |-> FALSE, Pipeline |-> cp, Resources |-> resources]

\* NewPipelineDescriber(pipelineName, showResources), with the clients it
\* is given.
InitDescribe ==
    /\ pc = "describe"
    /\ prevOK = FALSE
    /\ appName \in AppNames
    /\ repoURL = <<>>
    /\ githubAccessToken = ""
    /\ repoBranch = ""
    /\ environments = <<>>
    /\ envConfigs = <<>>
    /\ flags = [entry |-> pc, repoBranch |-> repoBranch, environments |-> environments,
                envConfigs |-> envConfigs]
    /\ envSource = ""
    /\ resolved = <<>>
    /\ details = NoDetails
    /\ err = NoError
    /\ calls = <<>>
    /\ secrets = {}
    /\ files = {}
    /\ store = [apps |-> AppNames, envs |-> EnvNames]
    /\ sessRegion = "us-west-2"
    /\ buffer = <<>>
    /\ urls = <<>>
    /\ pipelineName \in PipelineNames
    /\ showResources \in BOOLEAN
    /\ stack \in Stacks
    /\ description = Nil

\* PipelineDescriber.Describe
Describe ==
    /\ pc = "describe"
    /\ \E got \in GetPipelineAnswers(pipelineName) :
         LET getPipeline == Call("GetPipeline", <<pipelineName>>, got)
             cp == CodePipeline(pipelineName)
         IN IF got # "ok"
            THEN /\ calls' = Append(calls, getPipeline)
                 /\ description' = Nil
                 /\ Return(fmtErrGetPipeline(SomeError))
            ELSE IF showResources
                 THEN \E ans \in ResourcesAnswers :
                        /\ calls' = calls \o <<getPipeline, Call("Resources", <<>>, ans)>>
                        /\ IF ans # "ok" /\ ~IsStackNotExistsErr(ans)
                           THEN /\ description' = Nil
                                /\ Return(fmtErrRetrieveResources(SomeError))
                           ELSE /\ description' = Pipeline(cp, ResourcesOf(ans))
                                /\ Return(NoError)
                 ELSE /\ calls' = Append(calls, getPipeline)
                      /\ description' = Pipeline(cp, <<>>)
                      /\ Return(NoError)
    /\ UNCHANGED <<prevOK, inputVars, repoBranch, environments, envSource, resolved,
                   envConfigs, details, externalVars, helperVars, showResources, stack>>

\* Describe, for every describer and every stack.
SpecDescribe == InitDescribe /\ [][Describe]_vars

\* ------------------------------------------------------------------ reading the call log
CallsOf(op) == {i \in 1..Len(calls) : calls[i].op = op}
Called(op) == CallsOf(op) # {}
\* The answer of the call of op (of the one call there is).
Answered(op, ans) == \E i \in CallsOf(op) : calls[i].ans = ans
\* Every call of op1 comes before every call of op2.
Before(op1, op2) == \A i \in CallsOf(op1), j \in CallsOf(op2) : i < j
IsLastCall(op) == Len(calls) > 0 /\ Last(calls).op = op

ProvisionOps ==
    {"CreateSecret", "WritePipelineManifest", "GetApplication", "GetRegionalAppResources",
     "Parse", "WritePipelineBuildspec"}
IsProvisionCall(c) == c.op \in ProvisionOps
IsNotSecretCall(c) == c.op # "CreateSecret"
RECURSIVE OpsOf(_)
OpsOf(cs) == IF cs = <<>> THEN <<>> ELSE <<Head(cs).op>> \o OpsOf(Tail(cs))
\* The provisioning calls of the run, in the order they were made.
ProvisionCalls == SelectSeq(calls, IsProvisionCall)
IsPrefix(s, t) == Len(s) <= Len(t) /\ s = SubSeq(t, 1, Len(s))
Done == pc = "done"

\* ------------------------------------------------------------------ C1
\* C1, as claimed: the manifest write is attempted only after the application
\* lookup, the regional-resource lookup and the render have all succeeded.
C1_ManifestAfterRender ==
    Called("WritePipelineManifest") =>
        /\ Answered("GetApplication", "ok")
        /\ Answered("GetRegionalAppResources", "ok")
        /\ Answered("Parse", "ok")

\* C1, amended: in one provisioning run the steps happen in the fixed order
\* secret creation, manifest write, application lookup, regional-resource
\* lookup, buildspec render, buildspec write, each step being attempted only
\* after the step before it went through; the application lookup, the
\* regional-resource lookup and the render come after the manifest write, so
\* a run in which one of those three fails has attempted the manifest write.
C1_StepOrder ==
    /\ IsPrefix(OpsOf(SelectSeq(ProvisionCalls, IsNotSecretCall)),
                <<"WritePipelineManifest", "GetApplication", "GetRegionalAppResources",
                  "Parse", "WritePipelineBuildspec">>)
    /\ \A i \in CallsOf("CreateSecret") : ProvisionCalls[1] = calls[i]
    /\ \A i \in 1..(Len(ProvisionCalls) - 1) : ProvisionCalls[i].ans \in {"ok", "exists"}
    /\ \A op \in {"GetApplication", "GetRegionalAppResources", "Parse"} :
          Answered(op, "err") => Called("WritePipelineManifest")

\* C1 witness: the render failed in a run that had written the manifest.
C1_Witness ==
    /\ Done
    /\ Answered("Parse", "err")
    /\ Answered("WritePipelineManifest", "ok")
    /\ Called("CreateSecret")

\* ------------------------------------------------------------------ C2
\* The provisioning steps of the run were started.
Provisioned == Called("CreateSecret") \/ Called("WritePipelineManifest")
NoProvisionFailure == \A i \in 1..Len(calls) : IsProvisionCall(calls[i]) => calls[i].ans # "err"
NoCallFailure ==
    \A i \in 1..Len(calls) : calls[i].op # "runner.Run" => calls[i].ans # "err"

\* C2: provisioning is idempotent. A finished run whose provisioning calls
\* answered success or already-exists (secret, manifest, buildspec, in any
\* combination) and whose lookups and render succeeded returns no error; a
\* run after a successful run with the same flags, in which no collaborator
\* fails, returns no error either.
C2_Idempotent ==
    /\ (Done /\ Provisioned /\ NoProvisionFailure) => err = NoError
    /\ (Done /\ prevOK /\ NoCallFailure) => err = NoError

\* C2 witness: a re-run after a successful run found the secret and both
\* files and returned no error.
C2_Witness ==
    /\ Done
    /\ prevOK
    /\ Answered("CreateSecret", "exists")
    /\ Answered("WritePipelineManifest", "exists")
    /\ Answered("WritePipelineBuildspec", "exists")
    /\ err = NoError

\* ------------------------------------------------------------------ C3
\* C3, as claimed: whenever the manifest write reports FileAlreadyExists the
\* buildspec write is attempted in the same run, and the run succeeds iff
\* the buildspec write succeeds or reports FileAlreadyExists.
C3_BuildspecAlwaysAttempted ==
    (Done /\ Answered("WritePipelineManifest", "exists")) =>
        /\ Called("WritePipelineBuildspec")
        /\ err = NoError <=>
              (Answered("WritePipelineBuildspec", "ok") \/ Answered("WritePipelineBuildspec", "exists"))

\* C3, amended: an already existing manifest does not end the run. After the
\* manifest write reported FileAlreadyExists the application lookup is
\* attempted; the buildspec write is attempted in the same run if and only
\* if the application lookup, the regional-resource lookup and the render
\* succeed, and the run succeeds if and only if the buildspec write is
\* attempted and succeeds or reports FileAlreadyExists.
C3_ManifestExistsContinues ==
    (Done /\ Answered("WritePipelineManifest", "exists")) =>
        /\ Called("GetApplication")
        /\ Called("WritePipelineBuildspec") <=>
              /\ Answered("GetApplication", "ok")
              /\ Answered("GetRegionalAppResources", "ok")
              /\ Answered("Parse", "ok")
        /\ err = NoError <=>
              (Answered("WritePipelineBuildspec", "ok") \/ Answered("WritePipelineBuildspec", "exists"))

\* C3 witness: both files existed and the run succeeded.
C3_Witness ==
    /\ Done
    /\ Answered("WritePipelineManifest", "exists")
    /\ Answered("WritePipelineBuildspec", "exists")
    /\ err = NoError

\* ------------------------------------------------------------------ C4
\* C4: a failure of an artifact write other than FileAlreadyExists makes
\* the run return "write pipeline manifest to workspace: {cause}", or
\* "write buildspec to workspace: {cause}", and the failed write is the last
\* call of the run.
C4_WriteFailureFatal ==
    /\ Answered("WritePipelineManifest", "err") =>
          /\ Done
          /\ err = <<"write pipeline manifest to workspace", ": ", "some error">>
          /\ IsLastCall("WritePipelineManifest")
    /\ Answered("WritePipelineBuildspec", "err") =>
          /\ Done
          /\ err = <<"write buildspec to workspace", ": ", "some error">>
          /\ IsLastCall("WritePipelineBuildspec")

\* C4 witness: the buildspec write failed after the manifest was written.
C4_Witness ==
    /\ Done
    /\ Answered("WritePipelineManifest", "ok")
    /\ Answered("WritePipelineBuildspec", "err")

\* ------------------------------------------------------------------ C5
\* C5: when the template parser fails the run returns the parser's error
\* as it is, and the buildspec write is not attempted.
C5_RenderErrorVerbatim ==
    Answered("Parse", "err") =>
        /\ Done
        /\ err = <<"some error">>
        /\ ~Called("WritePipelineBuildspec")
        /\ IsLastCall("Parse")

\* C5 witness: the template parser failed.
C5_Witness == Done /\ Answered("Parse", "err") /\ buildspecFile \notin files

\* ------------------------------------------------------------------ C6
\* C6: a secret that exists already is no error: the run goes on to the
\* manifest write and the conflict is not what the run returns. Any other
\* error of the secret store ends the run with
\* "create pipeline secret: {cause}", and the secret call is the last call.
C6_SecretOutcome ==
    /\ (Done /\ Answered("CreateSecret", "exists")) =>
          /\ Called("WritePipelineManifest")
          /\ err = NoError \/ err[1] # "create pipeline secret"
    /\ Answered("CreateSecret", "err") =>
          /\ Done
          /\ err = <<"create pipeline secret", ": ", "some error">>
          /\ IsLastCall("CreateSecret")

\* C6 witness: the secret existed and the run went through.
C6_Witness ==
    /\ Done
    /\ Answered("CreateSecret", "exists")
    /\ Answered("WritePipelineBuildspec", "ok")
    /\ err = NoError

\* ------------------------------------------------------------------ C7
\* The repository name of the references that classify.
ExpectedRepoName ==
    CASE repoURL = ghSSH -> "goose"
      [] repoURL = ghHTTPS -> "chaOS"
      [] repoURL = ccHTTPS -> "goose"
      [] repoURL = ccGRC -> "repo-man"
      [] repoURL = bbHTTPS -> "goose"
      [] OTHER -> "?"

\* C7: the secret store is called in a provisioning run if and only if the
\* GitHub access token is not empty; it is called at most once, with the
\* name "github-token-" + appName + "-" + repoName and the token, and before
\* the artifact writes.
C7_SecretCall ==
    /\ Cardinality(CallsOf("CreateSecret")) <= 1
    /\ Called("CreateSecret") => githubAccessToken # ""
    /\ Provisioned => (Called("CreateSecret") <=> githubAccessToken # "")
    /\ \A i \in CallsOf("CreateSecret") :
          calls[i].arg = <<<<"github-token-", appName, "-", ExpectedRepoName>>, githubAccessToken>>
    /\ Before("CreateSecret", "WritePipelineManifest")
    /\ Before("CreateSecret", "WritePipelineBuildspec")

\* C7 witness: the token was stored for git@github.com:badgoose/goose.git
\* and both files were written.
C7_Witness ==
    /\ Done
    /\ repoURL = ghSSH
    /\ Answered("CreateSecret", "ok")
    /\ Answered("WritePipelineManifest", "ok")
    /\ Answered("WritePipelineBuildspec", "ok")

\* ------------------------------------------------------------------ C8
\* The reference does not classify, or it is a CodeCommit repository of
\* another region than the default session.
UnusableRepository ==
    \/ repoURL \in {ghBad, ccBad, ccBadRegion, bbBad, unsupportedURL}
    \/ repoURL \in {ccHTTPS, ccGRC} /\ sessRegion # "us-west-2"

\* C8: for an unusable repository (classification fails, or the CodeCommit
\* region check fails) no provisioning call is made: no secret, no
\* application or regional-resource lookup, no render, no artifact write;
\* the run ends with an error.
C8_NoProvisioningForUnusableRepo ==
    UnusableRepository =>
        /\ \A i \in 1..Len(calls) : ~IsProvisionCall(calls[i])
        /\ Done => err # NoError
        /\ pc \notin {"exec_branch", "exec_secret", "exec_manifest", "exec_app",
                      "exec_resources", "exec_render", "exec_buildspec"}

\* C8 witness: Execute ended on a region mismatch with a token given.
C8_Witness ==
    /\ Done
    /\ repoURL = ccGRC
    /\ sessRegion = "us-east-1"
    /\ githubAccessToken # ""
    /\ Called("sessProvider.Default")
    /\ err = <<"repository ", "repo-man", " is in ", "us-west-2", ", but app ", appName,
               " is in ", "us-east-1", "; they must be in the same region">>

\* ------------------------------------------------------------------ C9
IsEnvCall(c) == c.op = "GetEnvironment"
EnvCalls == SelectSeq(calls, IsEnvCall)

\* C9: environment resolution is fail-fast. The names are looked up in the
\* order given; a failed lookup is the last call of the run, the run ends
\* with an error and no environment configuration is kept.
C9_FailFast ==
    /\ Len(EnvCalls) <= Len(environments)
    /\ \A k \in 1..Len(EnvCalls) : EnvCalls[k].arg = <<appName, environments[k]>>
    /\ \A i \in CallsOf("GetEnvironment") :
          calls[i].ans = "err" =>
              /\ i = Len(calls)
              /\ Done
              /\ err # NoError
              /\ envConfigs = <<>>

\* C9 witness: of two requested environments the first lookup failed and
\* the second name was never looked up.
C9_Witness ==
    /\ Done
    /\ Len(environments) = 2
    /\ Len(EnvCalls) = 1
    /\ EnvCalls[1].ans = "err"

\* ------------------------------------------------------------------ C10
EnvLookupFailed == Done /\ IsLastCall("GetEnvironment") /\ Last(calls).ans = "err"

\* C10, as claimed: a failed lookup of a requested environment returns
\* "get config of environment {name}: {cause}", whether the names came from
\* flags or from the selection.
C10_GetConfigOfEnvironment ==
    EnvLookupFailed =>
        err = <<"get config of environment ", environments[Len(EnvCalls)], ": ", "some error">>

\* C10, amended: a failed lookup of a requested environment returns
\* "get config of environment {name}: {cause}" when the names came from the
\* interactive selection and "validate environment {name}: {cause}" when
\* they came from flags; {name} is the first failing environment and
\* {cause} the error of the store.
C10_EnvErrorBySource ==
    EnvLookupFailed =>
        /\ \A k \in 1..(Len(EnvCalls) - 1) : EnvCalls[k].ans = "ok"
        /\ err = <<IF flags.environments = <<>> THEN "get config of environment "
                                               ELSE "validate environment ",
                   environments[Len(EnvCalls)], ": ", "some error">>

\* C10 witness: "test" and "prod" were selected and the lookup of "prod"
\* failed.
C10_Witness ==
    /\ EnvLookupFailed
    /\ flags.environments = <<>>
    /\ environments = <<"test", "prod">>
    /\ Len(EnvCalls) = 2
    /\ err = <<"get config of environment ", "prod", ": ", "some error">>

\* ------------------------------------------------------------------ C11
\* Ask is over the environments and no lookup failed.
EnvsLookedUp ==
    /\ flags.entry = "ask_url"
    /\ envSource # ""
    /\ pc # "env_lookup"
    /\ \A k \in 1..Len(EnvCalls) : EnvCalls[k].ans = "ok"

\* C11: when every lookup succeeds, environment resolution returns one
\* configuration per requested name, in the order requested, duplicates
\* kept: the result is as long as the request and its i-th element is the
\* record of the i-th name; an empty request gives an empty result. While
\* the loop runs, what it has collected is the records of the first names.
C11_OnePerNameInOrder ==
    /\ EnvsLookedUp =>
          /\ Len(envConfigs) = Len(environments)
          /\ \A i \in 1..Len(environments) : envConfigs[i] = EnvConfig(environments[i])
    /\ pc = "env_lookup" =>
          /\ Len(resolved) < Len(environments)
          /\ \A i \in 1..Len(resolved) : resolved[i] = EnvConfig(environments[i])

\* C11 witness: "prod", "prod" was requested by flag and both lookups
\* succeeded: the result has "prod" twice.
C11_Witness ==
    /\ EnvsLookedUp
    /\ flags.environments = <<"prod", "prod">>
    /\ Len(EnvCalls) = 2
    /\ envConfigs = <<EnvConfig("prod"), EnvConfig("prod")>>

\* ------------------------------------------------------------------ C12
\* Execute is past the repository details.
Parsed == pc # "exec_parse"

\* C12: classification tries GitHub, then CodeCommit, then Bitbucket, and
\* the first provider that matches decides: a reference of a GitHub dialect
\* is classified GitHub, never CodeCommit or Bitbucket, whatever words of the
\* other providers it holds; a reference of a CodeCommit dialect that is not
\* a GitHub one is CodeCommit or the unknown-region error, never Bitbucket;
\* every reference gets exactly one outcome, a provider or an error.
C12_FirstMatchWins ==
    Parsed =>
        /\ \/ details.kind \in {"GitHub", "Bitbucket"} /\ err = NoError
           \/ details.kind = "CodeCommit"
           \/ details = NoDetails /\ err # NoError
        /\ repoURL \in RefsOf(ghHeads, GoodTails) => details.kind = "GitHub"
        /\ repoURL \in RefsOf(ccHeads, GoodTails) =>
              \/ details.kind = "CodeCommit"
              \/ details = NoDetails /\ err = <<"unable to parse the AWS region from ">> \o repoURL

\* C12 witness: https://github.com/codecommit/bitbucket.org holds the
\* markers of all three providers and is classified GitHub.
C12_Witness ==
    /\ Parsed
    /\ repoURL = <<"https://", "github.com", "/", "codecommit", "/", "bitbucket.org">>
    /\ details.kind = "GitHub"
    /\ details.owner = "codecommit"
    /\ details.name = <<"bitbucket.org">>

\* ------------------------------------------------------------------ C13
\* C13: a reference of none of the three providers is rejected with the
\* unsupported-provider error, which carries the reference as given and
\* names GitHub, CodeCommit and Bitbucket; this is so at Ask, for a reference
\* given by flag, and at Execute, and no collaborator is called.
C13_UnsupportedProvider ==
    (repoURL = unsupportedURL /\ pc # flags.entry) =>
        /\ Done
        /\ err = <<"repository ", "https://", "gitlab.company.com", "/", "group", "/", "project",
                   ".git", " must be from a supported provider: GitHub, CodeCommit or Bitbucket">>
        /\ calls = <<>>

\* C13 witness: Ask rejected the reference given by flag; the environments
\* given by flag were not looked up.
C13_Witness ==
    /\ Done
    /\ flags.entry = "ask_url"
    /\ repoURL = unsupportedURL
    /\ Len(flags.environments) = 2
    /\ err # NoError
    /\ Last(err) = " must be from a supported provider: GitHub, CodeCommit or Bitbucket"

\* ------------------------------------------------------------------ C14
\* C14: a reference that holds the host marker of a provider and does not
\* fit the grammar of that provider fails with the malformed-URL error of
\* that provider (GitHub: with the expected format; CodeCommit: unknown
\* CodeCommit URL format; Bitbucket: unable to parse the repository name);
\* it is never reported as unsupported and never given to a later provider.
\* So a reference with the GitHub marker is GitHub or the GitHub error, one
\* with the CodeCommit marker and no GitHub marker is CodeCommit or a
\* CodeCommit error, one with the Bitbucket marker only is Bitbucket or the
\* Bitbucket error.
C14_MalformedByProvider ==
    LET gh == \E i \in 1..Len(repoURL) : repoURL[i] = "github.com"
        cc == \E i \in 1..Len(repoURL) : repoURL[i] \in {"codecommit", "git-codecommit"}
        bb == \E i \in 1..Len(repoURL) : repoURL[i] = "bitbucket.org"
        ghErr == <<"unable to parse the GitHub repository owner and name from ">> \o repoURL
                    \o <<": please pass the repository URL with the format --url https://github.com/{owner}/{repositoryName}">>
        ccErr == <<"unknown CodeCommit URL format: ">> \o repoURL
        regionErr == <<"unable to parse the AWS region from ">> \o repoURL
        bbErr == <<"unable to parse the Bitbucket repository name from ">> \o repoURL
    IN Parsed =>
        /\ gh => \/ details.kind = "GitHub" /\ err = NoError
                 \/ details = NoDetails /\ err = ghErr
        /\ (~gh /\ cc) => \/ details.kind = "CodeCommit"
                          \/ details = NoDetails /\ err \in {ccErr, regionErr}
        /\ (~gh /\ ~cc /\ bb) => \/ details.kind = "Bitbucket" /\ err = NoError
                                 \/ details = NoDetails /\ err = bbErr
        /\ repoURL = ghBad => err = ghErr
        /\ repoURL = ccBad => err = ccErr
        /\ repoURL = bbBad => err = bbErr

\* C14 witness: "bitbucket.org" alone fails with the Bitbucket error.
C14_Witness ==
    /\ Parsed
    /\ repoURL = <<"bitbucket.org">>
    /\ details = NoDetails
    /\ err = <<"unable to parse the Bitbucket repository name from ", "bitbucket.org">>

C16_SuffixInvariance ==
    (Parsed /\ details.kind = "GitHub") =>
        LET d == Classify(repoURL \o <<".git">>)
        IN d.name = details.name /\ d.owner = details.owner

\* C16, amended: for every GitHub reference u the classifier accepts and
\* that does not itself end in ".git", u and u + ".git" give the same name
\* and owner; of a reference that ends in ".git" one ".git" is removed, so
\* u + ".git" keeps a ".git" in its name.
C16_SuffixInvarianceWithoutSuffix ==
    (Parsed /\ details.kind = "GitHub") =>
        LET d == Classify(repoURL \o <<".git">>)
        IN /\ Last(repoURL) # ".git" =>
                /\ d.kind = "GitHub"
                /\ d.name = details.name
                /\ d.owner = details.owner
           /\ Last(repoURL) = ".git" => d.name = details.name \o <<".git">>

\* C16 witness: git@github.com:badgoose/goose is accepted with the name
\* "goose", as is the same reference with ".git".
C16_Witness ==
    /\ Parsed
    /\ repoURL = <<"git@", "github.com", ":", "badgoose", "/", "goose">>
    /\ details.kind = "GitHub"
    /\ details.name = <<"goose">>
    /\ Classify(repoURL \o <<".git">>).name = <<"goose">>

\* ------------------------------------------------------------------ C17
\* "pipeline-" + appName + "-" + repoName, character by character.
Unbounded ==
    [i \in 1..9 |-> <<"pipeline-", i>>] \o appName \o <<<<"-", 1>>>> \o details.name

\* C17: the pipeline name never has more than 100 characters, and whenever
\* "pipeline-" + appName + "-" + repoName has at most 100 characters, 100
\* included, the pipeline name is that concatenation unchanged.
C17_AtMost100 ==
    Done =>
        /\ Len(pipelineName) <= 100
        /\ Len(appName) + Len(details.name) <= 90 => pipelineName = Unbounded

\* C17 witness: an application name of 50 and a repository name of 40
\* characters give a pipeline name of exactly 100 characters, unchanged.
C17_Witness ==
    /\ Done
    /\ Len(appName) = 50
    /\ Len(details.name) = 40
    /\ Len(pipelineName) = 100
    /\ pipelineName = Unbounded

\* ------------------------------------------------------------------ C18
\* C18, as claimed: whenever the unbounded name has more than 100
\* characters the pipeline name has exactly 100 characters and starts with
\* "pipeline-" + appName + "-", whatever the length of appName.
C18_AppNameNeverCut ==
    (Done /\ Len(Unbounded) > 100) =>
        /\ Len(pipelineName) = 100
        /\ IsPrefix(SubSeq(Unbounded, 1, 10 + Len(appName)), pipelineName)

\* C18, amended: for every appName of at most 90 characters (so that
\* "pipeline-" + appName + "-" has at most 100) and every repoName with which
\* the unbounded name has more than 100 characters, the pipeline name has
\* exactly 100 characters, starts with "pipeline-" + appName + "-" and goes
\* on with the first characters of repoName: only the tail of repoName is
\* removed.
C18_RepoTailCut ==
    (Done /\ Len(Unbounded) > 100 /\ Len(appName) <= 90) =>
        /\ Len(pipelineName) = 100
        /\ IsPrefix(SubSeq(Unbounded, 1, 10 + Len(appName)), pipelineName)
        /\ pipelineName =
              SubSeq(Unbounded, 1, 10 + Len(appName))
                  \o SubSeq(details.name, 1, 90 - Len(appName))

\* C18 witness: an application name and a repository name of 50 characters
\* each: the pipeline name ends after the 40th character of the repository
\* name.
C18_Witness ==
    /\ Done
    /\ Len(appName) = 50
    /\ Len(details.name) = 50
    /\ Len(pipelineName) = 100
    /\ pipelineName[100] = <<"repoName", 40>>
    /\ pipelineName[60] = <<"-", 1>>

\* ------------------------------------------------------------------ C19
WithoutGit(u) == IF Len(u) > 0 /\ u[Len(u)] = ".git" THEN SubSeq(u, 1, Len(u) - 1) ELSE u

\* The URLs of the lines of a supported provider, without ".git".
Candidates ==
    {WithoutGit(buffer[k].url) : k \in {j \in 1..Len(buffer) : buffer[j].url \in SupportedRemotes}}

SetOf(seq) == {seq[i] : i \in 1..Len(seq)}

\* C19: remote discovery returns exactly the URLs of the listing lines of a
\* supported provider, each without a trailing ".git" and each once,
\* however many lines carry it; the lines of other hosts are dropped and no
\* error is returned.
C19_DiscoveredSet ==
    Done =>
        /\ SetOf(urls) = Candidates
        /\ Len(urls) = Cardinality(Candidates)
        /\ \A i \in 1..Len(urls) :
              /\ Last(urls[i]) # ".git"
              /\ urls[i] \notin UnsupportedRemotes
        /\ err = NoError

\* C19 witness: git@github.com:badgoose/goose.git (fetch), a gitlab.com
\* line and git@github.com:badgoose/goose (push) give the one URL
\* git@github.com:badgoose/goose.
C19_Witness ==
    /\ Done
    /\ Len(buffer) = 3
    /\ buffer[1].url = ghSSH
    /\ buffer[2].url \in UnsupportedRemotes
    /\ buffer[3].url = ghSSHNoSuffix
    /\ urls = <<ghSSHNoSuffix>>

\* ------------------------------------------------------------------ C20
\* The first line of the listing that carries the URL.
FirstSeen(u) ==
    CHOOSE k \in 1..Len(buffer) :
        /\ WithoutGit(buffer[k].url) = u
        /\ \A j \in 1..(k - 1) : WithoutGit(buffer[j].url) # u

SelectOneCalls == CallsOf("prompt.SelectOne")

\* C21: without --url the number of URLs found decides the selection.  One
\* URL found: it is the repository URL and SelectOne is not called.  Several
\* found: SelectOne is called exactly once over them, the URL it returns is
\* the repository URL, and its failure is returned as "select URL: {cause}"
\* with no URL set.  None found: SelectOne is not called and no URL is set
\* unless the user is asked in another way; otherwise the command fails
\* with NoRepositoryFoundError.
C21_SelectionByCount ==
    Done =>
        /\ Len(urls) = 1 =>
              /\ repoURL = urls[1]
              /\ SelectOneCalls = {}
              /\ err = NoError
        /\ Len(urls) > 1 =>
              /\ Cardinality(SelectOneCalls) = 1
              /\ \A i \in SelectOneCalls :
                    /\ calls[i].arg = urls
                    /\ IF calls[i].ans = NoURL
                       THEN err = Errorf(<<"select URL">>, SomeError) /\ repoURL = <<>>
                       ELSE err = NoError /\ repoURL = calls[i].ans
        /\ Len(urls) = 0 =>
              /\ SelectOneCalls = {}
              /\ \/ err = errNoRepositoryFound /\ repoURL = <<>>
                 \/ err = NoError /\ Called("prompt.Get") /\ repoURL = Last(calls).ans

\* Three URLs are found and the user selects one that is not the first.
C21_Witness ==
    /\ Done
    /\ Len(urls) = 3
    /\ Cardinality(SelectOneCalls) = 1
    /\ repoURL = urls[2]
    /\ err = NoError

\* One URL is found and taken without a prompt.
C21_WitnessOne ==
    /\ Done
    /\ Len(urls) = 1
    /\ repoURL = urls[1]
    /\ Len(calls) = 1

\* ------------------------------------------------------------------ C22
\* The environments of the run, looked up or given, are in the region r.
SomeEnvIn(r) == \E i \in 1..Len(envConfigs) : envConfigs[i].Region = r

\* C22: for a CodeCommit repository the default session is asked for its
\* region, and Execute returns the region mismatch error, which names the
\* repository, its region, the application and the region of the session,
\* exactly when the region of the repository is not the region of the
\* session, whatever the regions of the environments of the run are.
C22_RegionCheck ==
    details.kind = ccProviderName =>
        /\ Cardinality(CallsOf("sessProvider.Default")) = 1
        /\ (err = fmtErrRegionMismatch(details.name, details.region, appName, sessRegion))
              <=> (details.region # sessRegion)
        /\ details.region # sessRegion => Done

\* A CodeCommit run of Ask and Execute ends without an error although one
\* of its environments is in another region than the repository and the
\* session.
C22_Witness ==
    /\ Done
    /\ err = NoError
    /\ details.kind = ccProviderName
    /\ details.region = sessRegion
    /\ Called("WritePipelineBuildspec")
    /\ \E r \in AWSRegions : r # sessRegion /\ SomeEnvIn(r)

\* The region mismatch is returned although every environment of the run
\* is in the region of the repository.
C22_WitnessMismatch ==
    /\ Done
    /\ details.kind = ccProviderName
    /\ details.region # sessRegion
    /\ err = fmtErrRegionMismatch(details.name, details.region, appName, sessRegion)
    /\ envConfigs # <<>>
    /\ \A i \in 1..Len(envConfigs) : envConfigs[i].Region = details.region

\* ------------------------------------------------------------------ C23
\* An error that says the repository and the application are in different
\* regions, whatever repository, application and regions it names.
IsRegionMismatchError(e) ==
    /\ Len(e) > 0
    /\ e[1] = "repository "
    /\ Last(e) = "; they must be in the same region"

\* C23: in a run whose repository URL is a GitHub or a Bitbucket URL the
\* session provider is never called and the error of the run, if any, is
\* not a region mismatch.
C23_NoRegionCheckForOthers ==
    Classify(repoURL).kind \in {ghProviderName, bbProviderName} =>
        /\ ~Called("sessProvider.Default")
        /\ ~IsRegionMismatchError(err)

\* A Bitbucket run went all the way to the buildspec and ended without an
\* error.
C23_Witness ==
    /\ Done
    /\ err = NoError
    /\ details.kind = bbProviderName
    /\ Called("WritePipelineBuildspec")
    /\ ~Called("sessProvider.Default")

\* ------------------------------------------------------------------ C24
\* C24, as claimed: the region check comes before every environment lookup
\* and before the branch command, so that a region mismatch is returned
\* with no environment looked up and no branch command run.
C24_RegionCheckFirst ==
    /\ Before("sessProvider.Default", "GetEnvironment")
    /\ Before("sessProvider.Default", "runner.Run")
    /\ IsRegionMismatchError(err) => ~Called("GetEnvironment") /\ ~Called("runner.Run")

\* C24, amended: the region check of a CodeCommit repository is made in
\* Execute, after Ask has looked up the environments of the run and before
\* the branch command; a region mismatch is returned with no branch command
\* run, and the environments of the run have been looked up by then.
C24_RegionCheckAfterAsk ==
    /\ Before("GetEnvironment", "sessProvider.Default")
    /\ Before("sessProvider.Default", "runner.Run")
    /\ IsRegionMismatchError(err) =>
          /\ ~Called("runner.Run")
          /\ flags.entry = "ask_url" =>
                Cardinality(CallsOf("GetEnvironment")) = Len(environments)

\* Ask looked up two environments, no branch was given, and Execute returned
\* the region mismatch before git was asked for the branch.
C24_Witness ==
    /\ Done
    /\ IsRegionMismatchError(err)
    /\ flags.repoBranch = ""
    /\ Cardinality(CallsOf("GetEnvironment")) = 2
    /\ IsLastCall("sessProvider.Default")
    /\ ~Called("runner.Run")

\* ------------------------------------------------------------------ C25
\* The branch command was run in this run.
BranchDetected == Called("runner.Run")
BranchCommandFailed == Answered("runner.Run", "err")

\* C25: the branch command is run only when no branch was given.  If it
\* fails or writes nothing the branch is "main"; if it succeeds and writes
\* something the branch is what it wrote without the white space around it.
\* Either way Execute goes on with the provisioning: right after the
\* command no error is set and the provisioning is next, the run that ends
\* with an error ends with the error of a failed provisioning call, and
\* the run that ends without one has written the buildspec.
C25_BranchNeverFatal ==
    BranchDetected =>
        /\ flags.repoBranch = ""
        /\ Cardinality(CallsOf("runner.Run")) = 1
        /\ (BranchCommandFailed \/ buffer = <<>>) => repoBranch = "main"
        /\ (~BranchCommandFailed /\ buffer # <<>>) =>
              /\ repoBranch \in SetOfURLs(buffer)
              /\ ~IsSpace(repoBranch)
              /\ \A i \in 1..Len(buffer) : buffer[i] # repoBranch => IsSpace(buffer[i])
        /\ IsLastCall("runner.Run") => err = NoError /\ pc \in {"exec_secret", "exec_manifest"}
        /\ (Done /\ err # NoError) => IsProvisionCall(Last(calls)) /\ Last(calls).ans = "err"
        /\ (Done /\ err = NoError) => Called("WritePipelineBuildspec")

\* The branch command failed, the branch is "main", and the run went on to
\* write the buildspec and ended without an error.
C25_Witness ==
    /\ Done
    /\ BranchCommandFailed
    /\ repoBranch = "main"
    /\ err = NoError
    /\ Called("WritePipelineBuildspec")

\* Git wrote the branch and the end of the line; the branch is the name.
C25_WitnessTrimmed ==
    /\ Done
    /\ buffer = <<"devBranch", "\n">>
    /\ repoBranch = "devBranch"
    /\ err = NoError

\* ------------------------------------------------------------------ C26
\* C26: in a run that was given a branch, the branch command is never run
\* and the branch is, at every step and at the end, the branch given.
C26_GivenBranchKept ==
    flags.repoBranch # "" =>
        /\ ~Called("runner.Run")
        /\ repoBranch = flags.repoBranch
        /\ buffer = <<>>

\* A run with --git-branch feature went past the branch step to the end.
C26_Witness ==
    /\ Done
    /\ flags.repoBranch = "feature"
    /\ repoBranch = "feature"
    /\ err = NoError
    /\ Called("WritePipelineBuildspec")

\* ------------------------------------------------------------------ C27
\* The collaborator calls a run makes once at most, whatever they answer.
SingleCallOps == ProvisionOps \cup {"sel.Environments", "sessProvider.Default", "runner.Run"}

C27_WitnessFailure ==
    /\ Done
    /\ Len(EnvCalls) = 1
    /\ EnvCalls[1].ans = "err"
    /\ IsLastCall("GetEnvironment")

\* ------------------------------------------------------------------ C28
\* The step made the call op and the call answered ans.
Made(op, ans) ==
    /\ Len(calls') = Len(calls) + 1
    /\ calls'[Len(calls')].op = op
    /\ calls'[Len(calls')].ans = ans

\* C28: no step of the command changes the configuration store.  A step
\* changes the secret store only by adding the one secret of the run, with
\* the first and only CreateSecret of the run; a step changes the workspace
\* only by adding the manifest or the buildspec, with a write that
\* succeeded, and a write that succeeded found no such file: a file the
\* workspace held is left as it was.
C28_OnlySecretAndFilesAdded ==
    [][/\ store' = store
       /\ secrets \subseteq secrets'
       /\ secrets' # secrets =>
             /\ secrets' = secrets \cup {SecretName(appName, details.name)}
             /\ ~Called("CreateSecret")
             /\ Made("CreateSecret", "ok")
       /\ files \subseteq files'
       /\ files' \subseteq files \cup {pipelineManifestFile, buildspecFile}
       /\ pipelineManifestFile \in files' \ files =>
             ~Called("WritePipelineManifest") /\ Made("WritePipelineManifest", "ok")
       /\ buildspecFile \in files' \ files =>
             ~Called("WritePipelineBuildspec") /\ Made("WritePipelineBuildspec", "ok")
       /\ Made("WritePipelineManifest", "ok") => pipelineManifestFile \notin files
       /\ Made("WritePipelineBuildspec", "ok") => buildspecFile \notin files
      ]_vars

\* A run added the secret and the manifest and left the buildspec the
\* workspace held alone; the store is as it was given.
C28_Witness ==
    /\ Done
    /\ err = NoError
    /\ Answered("CreateSecret", "ok")
    /\ SecretName(appName, details.name) \in secrets
    /\ Answered("WritePipelineManifest", "ok")
    /\ Answered("WritePipelineBuildspec", "exists")
    /\ files = {pipelineManifestFile, buildspecFile}
    /\ store \in Stores

\* ------------------------------------------------------------------ C29
\* The reference is a CodeCommit reference of one of the dialects, with a
\* region segment that is no AWS region.
HasUnknownRegion(ref) ==
    /\ ~HasMarker(ref, githubURL)
    /\ \E i \in 1..Len(ref) :
          /\ Len(ref) >= i + 4
          /\ \/ ref[i] = "git-codecommit" /\ ref[i + 1] = "."
                   /\ ref[i + 3] = ".amazonaws.com/v1/repos/"
             \/ ref[i] = "codecommit" /\ ref[i + 1] = "::" /\ ref[i + 3] = "://"
          /\ ref[i + 2] \notin AWSRegions

\* C29: a run with a CodeCommit reference whose region is no AWS region
\* never calls the session provider and makes no provisioning call, and the
\* error it ends with is "unable to parse the AWS region from {reference}",
\* not a region mismatch.
C29_UnknownRegionRejected ==
    HasUnknownRegion(repoURL) =>
        /\ ~Called("sessProvider.Default")
        /\ ProvisionCalls = <<>>
        /\ details = NoDetails
        /\ ~IsRegionMismatchError(err)
        /\ pc \notin {"exec_branch"} \cup SetOfURLs(provisionSteps)
        /\ Done => err = <<"unable to parse the AWS region from ">> \o repoURL

\* Execute was given codecommit::us-mess-2://repo-man and a token, and
\* returned the error of the region with no call made.
C29_Witness ==
    /\ Done
    /\ flags.entry = "exec_parse"
    /\ repoURL = ccBadRegion
    /\ githubAccessToken # ""
    /\ err = <<"unable to parse the AWS region from ">> \o ccBadRegion
    /\ calls = <<>>

\* ------------------------------------------------------------------ C30
\* C30: Describe asks for the resources of the stack only when
\* showResources is set, and only after GetPipeline answered without an
\* error.  If GetPipeline fails, Describe returns "get pipeline: {cause}",
\* nothing else, and has not asked for the resources.  If Resources fails
\* because the stack does not exist, Describe returns the pipeline without
\* resources and no error; if it fails otherwise, Describe returns
\* "retrieve pipeline resources: {cause}" and nothing else.
C30_DescribeResources ==
    Done =>
        /\ Cardinality(CallsOf("GetPipeline")) = 1
        /\ Called("Resources") =>
              /\ showResources
              /\ Answered("GetPipeline", "ok")
              /\ Before("GetPipeline", "Resources")
        /\ Answered("GetPipeline", "err") =>
              /\ err = <<"get pipeline", ": ">> \o SomeError
              /\ ~Called("Resources")
              /\ description = Nil
        /\ Answered("Resources", "notexists") =>
              /\ err = NoError
              /\ description = [nil |-> FALSE, Pipeline |-> [Name |-> pipelineName],
                                Resources |-> <<>>]
        /\ Answered("Resources", "err") =>
              /\ err = <<"retrieve pipeline resources", ": ">> \o SomeError
              /\ description = Nil

\* The resources were asked for, the stack does not exist, and Describe
\* returned the pipeline without resources.
C30_Witness ==
    /\ Done
    /\ showResources
    /\ ~stack.exists
    /\ Answered("Resources", "notexists")
    /\ err = NoError
    /\ description # Nil
    /\ description.Resources = <<>>

\* The stack has all its resources and Describe returned them.
C30_WitnessResources ==
    /\ Done
    /\ Answered("Resources", "ok")
    /\ description # Nil
    /\ Len(description.Resources) = MaxResources

====
